---- MODULE Spec2Model ----
(***************************************************************************)
(* Model of x64_dbg_dbg/FunctionPass.cpp: the function-discovery analysis  *)
(* pass.  The constructor loads the module's exception directory, Analyse  *)
(* forks one AnalysisWorker per shard of the basic-block array, joins,     *)
(* merges the per-thread candidate lists and commits them to the function  *)
(* table.  Block and worker indices are 0-based as in the code; sequences  *)
(* are 1-based, so block i of the code is m_MainBlocks[i + 1].             *)
(***************************************************************************)
EXTENDS Integers, Sequences, FiniteSets, TLC

\* ---------------------------------------------------------------- bounds
\* uint arithmetic is modulo WordMod
WordMod == 16
\* addresses offered as inputs are 0..MaxAddr; the analysed range is [1, MaxAddr)
MaxAddr == 3
MaxBlocks == 2
MaxThreads == 2
MaxRecords == 1
\* the sharding specification: more blocks and workers, no call edges
MaxShardBlocks == 5
MaxShardThreads == 4
\* how often Analyse is called on one pass object
MaxRuns == 2
\* blocks and workers of the runs with two records
RaceBlocks == 4
RaceThreads == 3

Addr == 0..MaxAddr
Wrap(x) == x % WordMod
Min(a, b) == IF a < b THEN a ELSE b

BASIC_BLOCK_FLAG_CALL == "CALL"
BASIC_BLOCK_FLAG_INDIRPTR == "INDIRPTR"
BASIC_BLOCK_FLAG_FUNCTION == "FUNCTION"

\* m_FunctionInfo is a pointer: <<>> is nullptr, <<t>> a buffer holding the records t
NoBuffer == <<>>
\* MemRead returned false
MemFail == -1
\* FindBBlockInRange returned nullptr
NotFound == -1

VARIABLES
    image,              \* the module as the loader sees it (file, directory, live table)
    mem,                \* debuggee memory: pointer cell -> value, or MemFail
    validPtr,           \* addresses for which MemIsValidReadPtr holds
    threads,            \* IdealThreadCount()
    m_VirtualStart,
    m_VirtualEnd,
    m_MainBlocks,
    m_ModuleStart,
    m_FunctionInfo,
    m_FunctionInfoSize, \* in records: m_FunctionInfoSize / sizeof(RUNTIME_FUNCTION)
    pc,                 \* position of the thread that constructs the pass and calls Analyse
    thr,                \* per worker: position and locals of AnalysisWorker
    threadFunctions,    \* per worker: its candidate list
    funcs,              \* Analyse's merged list
    it,                 \* position of the commit loop in funcs
    functions,          \* the function table (FunctionClear / FunctionAdd)
    scanLog,            \* history: per block, who scanned it, the MemReads made, the candidates pushed
    visits,             \* history: number of callback invocations by the enumerator
    oob,                \* history: some block index outside 0..N-1 was dereferenced
    nClear,             \* history: FunctionClear calls
    nGui,               \* history: GuiUpdateAllViews calls
    runs,               \* history: calls of Analyse so far
    lastRun             \* history: the function table as the previous call of Analyse left it

env == <<image, mem, validPtr, threads, m_VirtualStart, m_VirtualEnd>>
pass == <<m_ModuleStart, m_FunctionInfo, m_FunctionInfoSize>>
calls == <<runs, lastRun>>
vars == <<image, mem, validPtr, threads, m_VirtualStart, m_VirtualEnd, m_MainBlocks,
          m_ModuleStart, m_FunctionInfo, m_FunctionInfoSize, pc, thr, threadFunctions,
          funcs, it, functions, scanLog, visits, oob, nClear, nGui, runs, lastRun>>

N == Len(m_MainBlocks)
Workers == 0..(threads - 1)
Block(i) == m_MainBlocks[i + 1]
InArray(i) == i >= 0 /\ i < N

\* ------------------------------------------------------------ FunctionDef
FunctionDef(vs, ve) ==
    [VirtualStart |-> vs, VirtualEnd |-> ve, BBlockStart |-> 0, BBlockEnd |-> 0]

\* operator< : primarily VirtualStart, then VirtualEnd
FunctionDefLess(a, b) ==
    \/ a.VirtualStart < b.VirtualStart
    \/ a.VirtualStart = b.VirtualStart /\ a.VirtualEnd < b.VirtualEnd

\* operator== : exact duplicates
FunctionDefEq(a, b) ==
    a.VirtualStart = b.VirtualStart /\ a.VirtualEnd = b.VirtualEnd

RECURSIVE InsertSorted(_, _)
InsertSorted(d, s) ==
    IF s = <<>> THEN <<d>>
    ELSE IF FunctionDefLess(Head(s), d) THEN <<Head(s)>> \o InsertSorted(d, Tail(s))
    ELSE <<d>> \o s

\* std::sort(begin, end)
RECURSIVE Sort(_)
Sort(s) == IF s = <<>> THEN <<>> ELSE InsertSorted(Head(s), Sort(Tail(s)))

\* erase(std::unique(begin, end), end): of each run of equal neighbours the first stays
RECURSIVE Unique(_)
Unique(s) ==
    IF Len(s) <= 1 THEN s
    ELSE IF FunctionDefEq(s[1], s[2]) THEN Unique(<<s[1]>> \o Tail(Tail(s)))
    ELSE <<s[1]>> \o Unique(Tail(s))

SortUniqueDefs(s) == Unique(Sort(s))

\* --------------------------------------------------- AnalysisPass helpers
ValidateAddress(a) == a >= m_VirtualStart /\ a < m_VirtualEnd

\* index of the block whose [VirtualStart, VirtualEnd) contains a, or NotFound
FindBBlockInRange(a) ==
    IF \E i \in 0..(N - 1) : Block(i).VirtualStart <= a /\ a < Block(i).VirtualEnd
    THEN CHOOSE i \in 0..(N - 1) : Block(i).VirtualStart <= a /\ a < Block(i).VirtualEnd
    ELSE NotFound

\* ------------------------------------------------------------ constructor
\* what the constructor leaves in m_FunctionInfoSize
LoadedSize(img) ==
    IF img.ModBase # 0 /\ img.Loads THEN img.Size ELSE 0

\* what the constructor leaves in m_FunctionInfo: the buffer is kept whether or not
\* MemRead filled it; after a failed read it holds whatever the allocation held
LoadedInfo(img) ==
    IF img.ModBase # 0 /\ img.Loads /\ img.virtualOffset # 0 /\ img.Alloc
    THEN (IF img.Read THEN <<img.Table>> ELSE <<img.Junk>>)
    ELSE NoBuffer

\* some step of the load failed
LoadFailed(img) ==
    img.ModBase # 0 /\ ~(img.Loads /\ img.virtualOffset # 0 /\ img.Alloc /\ img.Read)

\* FunctionPass::FunctionPass
Construct ==
    /\ pc = "new"
    /\ m_ModuleStart' = image.ModBase
    /\ m_FunctionInfoSize' = LoadedSize(image)
    /\ m_FunctionInfo' = LoadedInfo(image)
    /\ pc' = "ready"
    /\ UNCHANGED <<env, calls, m_MainBlocks, thr, threadFunctions, funcs, it, functions,
                   scanLog, visits, oob, nClear, nGui>>

\* ------------------------------------------------------------ enumerator
\* EnumerateFunctionRuntimeEntries64: the records the callback is invoked on
\* (the callback of the prepass always returns true)
EnumerateFunctionRuntimeEntries64 ==
    IF m_FunctionInfo = NoBuffer THEN <<>>
    ELSE SubSeq(m_FunctionInfo[1], 1, m_FunctionInfoSize)

\* ----------------------------------------------------------------- Analyse
\* the division rounded down instead of up
WorkAmount_Floor(n, t) == n \div t

\* THREAD_WORK = ceil(TOTAL / # THREADS)
WorkAmount(n, t) == (n + (t - 1)) \div t

ThreadWorkStart(n, t, i) == WorkAmount(n, t) * i

ThreadWorkStop(n, t, i) == Min(ThreadWorkStart(n, t, i) + WorkAmount(n, t), n)

\* Analyse up to the parallel_for: every worker is started on its shard
Analyse ==
    /\ pc = "ready"
    /\ thr' = [w \in Workers |->
                 [pc |-> "prepass",
                  Start |-> ThreadWorkStart(N, threads, w),
                  End |-> ThreadWorkStop(N, threads, w),
                  i |-> 0, k |-> 0, j |-> 0, tmp |-> {}]]
    /\ threadFunctions' = [w \in Workers |-> <<>>]
    /\ pc' = "parallel"
    /\ UNCHANGED <<env, calls, pass, m_MainBlocks, funcs, it, functions,
                   scanLog, visits, oob, nClear, nGui>>

\* Analyse called again on the same pass object: fresh locals, the blocks and the
\* function table as the previous call left them; the history starts over
AnalyseAgain ==
    /\ pc = "done"
    /\ runs < MaxRuns
    /\ thr' = [w \in Workers |->
                 [pc |-> "prepass",
                  Start |-> ThreadWorkStart(N, threads, w),
                  End |-> ThreadWorkStop(N, threads, w),
                  i |-> 0, k |-> 0, j |-> 0, tmp |-> {}]]
    /\ threadFunctions' = [w \in Workers |-> <<>>]
    /\ funcs' = <<>>
    /\ it' = 0
    /\ pc' = "parallel"
    /\ runs' = runs + 1
    /\ lastRun' = functions
    /\ scanLog' = [b \in DOMAIN scanLog |-> [scans |-> 0, by |-> -1, reads |-> 0, defs |-> <<>>]]
    /\ visits' = 0
    /\ nClear' = 0
    /\ nGui' = 0
    /\ UNCHANGED <<env, pass, m_MainBlocks, functions, oob>>

\* --------------------------------------------------------- AnalysisWorker
\* the callback of FindFunctionWorkerPrepass on one record
\* the prepass test with the upper bound included
PrepassKeeps_Closed(r, minFunc, maxFunc) ==
    LET funcAddr == Wrap(m_ModuleStart + r.BeginAddress)
    IN  funcAddr >= minFunc /\ funcAddr <= maxFunc

\* the test of the prepass callback
PrepassKeeps(r, minFunc, maxFunc) ==
    LET funcAddr == Wrap(m_ModuleStart + r.BeginAddress)
    IN  funcAddr >= minFunc /\ funcAddr < maxFunc

PrepassDef(r) ==
    FunctionDef(Wrap(m_ModuleStart + r.BeginAddress), Wrap(m_ModuleStart + r.EndAddress))

PrepassDefs(minFunc, maxFunc) ==
    LET kept == SelectSeq(EnumerateFunctionRuntimeEntries64,
                          LAMBDA r : PrepassKeeps(r, minFunc, maxFunc))
    IN  [x \in 1..Len(kept) |-> PrepassDef(kept[x])]

\* where the worker goes after the prepass or after a block: the scan loop's test
AfterScan(i, End) == IF i < End THEN "scan" ELSE "sort"

\* Step 1, FindFunctionWorkerPrepass.  m_MainBlocks[Start] and m_MainBlocks[End - 1]
\* are read without a range check: outside the array the read yields any value
FindFunctionWorkerPrepass(w) ==
    /\ pc = "parallel"
    /\ thr[w].pc = "prepass"
    /\ \E minFunc \in (IF InArray(thr[w].Start)
                        THEN {Block(thr[w].Start).VirtualStart} ELSE Addr),
          maxFunc \in (IF InArray(thr[w].End - 1)
                        THEN {Block(thr[w].End - 1).VirtualEnd} ELSE Addr) :
          threadFunctions' =
              [threadFunctions EXCEPT ![w] = @ \o PrepassDefs(minFunc, maxFunc)]
    /\ visits' = visits + Len(EnumerateFunctionRuntimeEntries64)
    /\ oob' = (oob \/ ~InArray(thr[w].Start) \/ ~InArray(thr[w].End - 1))
    /\ thr' = [thr EXCEPT ![w].pc = AfterScan(thr[w].Start, thr[w].End),
                          ![w].i = thr[w].Start]
    /\ UNCHANGED <<env, calls, pass, m_MainBlocks, pc, funcs, it, functions,
                   scanLog, nClear, nGui>>

\* ... or the read outside the array faults and the worker never returns
PrepassFault(w) ==
    /\ pc = "parallel"
    /\ thr[w].pc = "prepass"
    /\ ~InArray(thr[w].Start) \/ ~InArray(thr[w].End - 1)
    /\ oob' = TRUE
    /\ thr' = [thr EXCEPT ![w].pc = "fault"]
    /\ UNCHANGED <<env, calls, pass, m_MainBlocks, pc, threadFunctions, funcs, it, functions,
                   scanLog, visits, nClear, nGui>>

\* the scan without the test against the analysis limits
ScanBlock_NoLimits(b) ==
    IF BASIC_BLOCK_FLAG_CALL \notin b.Flags
    THEN [reads |-> 0, defs |-> <<>>]
    ELSE IF BASIC_BLOCK_FLAG_INDIRPTR \in b.Flags
    THEN (IF mem[b.Target] = MemFail \/ mem[b.Target] \notin validPtr
          THEN [reads |-> 1, defs |-> <<>>]
          ELSE [reads |-> 1, defs |-> <<FunctionDef(mem[b.Target], mem[b.Target])>>])
    ELSE [reads |-> 0, defs |-> <<FunctionDef(b.Target, b.Target)>>]

\* the scan taking the pointer cell's address, not its content, as the destination
ScanBlock_NoDeref(b) ==
    IF BASIC_BLOCK_FLAG_CALL \notin b.Flags
    THEN [reads |-> 0, defs |-> <<>>]
    ELSE IF BASIC_BLOCK_FLAG_INDIRPTR \in b.Flags
    THEN (IF mem[b.Target] = MemFail \/ mem[b.Target] \notin validPtr
                \/ ~ValidateAddress(mem[b.Target])
          THEN [reads |-> 1, defs |-> <<>>]
          ELSE [reads |-> 1, defs |-> <<FunctionDef(b.Target, b.Target)>>])
    ELSE IF ~ValidateAddress(b.Target)
    THEN [reads |-> 0, defs |-> <<>>]
    ELSE [reads |-> 0, defs |-> <<FunctionDef(b.Target, b.Target)>>]

\* the scan recording the calling block's own start instead of the destination
ScanBlock_CallerStart(b) ==
    IF BASIC_BLOCK_FLAG_CALL \notin b.Flags
    THEN [reads |-> 0, defs |-> <<>>]
    ELSE IF BASIC_BLOCK_FLAG_INDIRPTR \in b.Flags
    THEN (IF mem[b.Target] = MemFail
          THEN [reads |-> 1, defs |-> <<>>]
          ELSE IF mem[b.Target] \notin validPtr
          THEN [reads |-> 1, defs |-> <<>>]
          ELSE IF ~ValidateAddress(mem[b.Target])
          THEN [reads |-> 1, defs |-> <<>>]
          ELSE [reads |-> 1, defs |-> <<FunctionDef(b.VirtualStart, b.VirtualStart)>>])
    ELSE IF ~ValidateAddress(b.Target)
    THEN [reads |-> 0, defs |-> <<>>]
    ELSE [reads |-> 0, defs |-> <<FunctionDef(b.VirtualStart, b.VirtualStart)>>]

\* Step 2 on one block: the MemReads made and the candidates pushed
ScanBlock(b) ==
    IF BASIC_BLOCK_FLAG_CALL \notin b.Flags
    THEN [reads |-> 0, defs |-> <<>>]
    ELSE IF BASIC_BLOCK_FLAG_INDIRPTR \in b.Flags
    THEN (IF mem[b.Target] = MemFail
          THEN [reads |-> 1, defs |-> <<>>]
          ELSE IF mem[b.Target] \notin validPtr
          THEN [reads |-> 1, defs |-> <<>>]
          ELSE IF ~ValidateAddress(mem[b.Target])
          THEN [reads |-> 1, defs |-> <<>>]
          ELSE [reads |-> 1, defs |-> <<FunctionDef(mem[b.Target], mem[b.Target])>>])
    ELSE IF ~ValidateAddress(b.Target)
    THEN [reads |-> 0, defs |-> <<>>]
    ELSE [reads |-> 0, defs |-> <<FunctionDef(b.Target, b.Target)>>]

\* Step 2, one iteration of the loop over the shard's blocks
ScanStep(w) ==
    /\ pc = "parallel"
    /\ thr[w].pc = "scan"
    /\ LET r == ScanBlock(Block(thr[w].i))
       IN  /\ threadFunctions' = [threadFunctions EXCEPT ![w] = @ \o r.defs]
           /\ scanLog' = [scanLog EXCEPT ![thr[w].i] =
                            [scans |-> @.scans + 1, by |-> w,
                             reads |-> @.reads + r.reads, defs |-> @.defs \o r.defs]]
    /\ thr' = [thr EXCEPT ![w].i = @ + 1,
                          ![w].pc = AfterScan(thr[w].i + 1, thr[w].End)]
    /\ UNCHANGED <<env, calls, pass, m_MainBlocks, pc, funcs, it, functions,
                   visits, oob, nClear, nGui>>

\* where FindFunctionWorker goes from candidate k of a list of length n
AfterCandidate(k, n) == IF k < n THEN "resolve" ELSE "done"

\* Step 3, sort and remove duplicates
SortStep(w) ==
    /\ pc = "parallel"
    /\ thr[w].pc = "sort"
    /\ threadFunctions' = [threadFunctions EXCEPT ![w] = SortUniqueDefs(@)]
    /\ thr' = [thr EXCEPT ![w].k = 1,
                          ![w].pc = AfterCandidate(0, Len(SortUniqueDefs(threadFunctions[w])))]
    /\ UNCHANGED <<env, calls, pass, m_MainBlocks, pc, funcs, it, functions,
                   scanLog, visits, oob, nClear, nGui>>

\* ResolveKnownFunctionEnd testing the first lookup only
ResolveKnownFunctionEnd_NoEndTest(f) ==
    LET startBlock == FindBBlockInRange(f.VirtualStart)
        endBlock == FindBBlockInRange(f.VirtualEnd)
    IN  IF startBlock = NotFound THEN f
        ELSE [f EXCEPT !.BBlockStart = startBlock, !.BBlockEnd = Wrap(endBlock)]

\* ResolveKnownFunctionEnd up to its flag loop: the candidate with its block
\* indices set, or unchanged when a lookup fails
ResolveKnownFunctionEnd(f) ==
    LET startBlock == FindBBlockInRange(f.VirtualStart)
        endBlock == FindBBlockInRange(f.VirtualEnd)
    IN  IF startBlock = NotFound \/ endBlock = NotFound THEN f
        ELSE [f EXCEPT !.BBlockStart = startBlock, !.BBlockEnd = endBlock]

\* the candidate is handed to ResolveKnownFunctionEnd and both lookups succeed
Resolves(f) ==
    /\ f.VirtualEnd # 0
    /\ FindBBlockInRange(f.VirtualStart) # NotFound
    /\ FindBBlockInRange(f.VirtualEnd) # NotFound

\* Step 4, FindFunctionWorker on candidate k
ResolveStep(w) ==
    /\ pc = "parallel"
    /\ thr[w].pc = "resolve"
    /\ LET f == threadFunctions[w][thr[w].k]
           g == IF f.VirtualEnd # 0 THEN ResolveKnownFunctionEnd(f) ELSE f
       IN  /\ threadFunctions' = [threadFunctions EXCEPT ![w][thr[w].k] = g]
           /\ thr' = IF Resolves(f) /\ g.BBlockStart < g.BBlockEnd
                     THEN [thr EXCEPT ![w].pc = "flag_load", ![w].j = g.BBlockStart]
                     ELSE [thr EXCEPT ![w].pc = AfterCandidate(thr[w].k, Len(threadFunctions[w])),
                                      ![w].k = @ + 1]
    /\ UNCHANGED <<env, calls, pass, m_MainBlocks, pc, funcs, it, functions,
                   scanLog, visits, oob, nClear, nGui>>

\* a SetFlag that flips the bit
SetFlag_Toggle(flags, flag) == (flags \ {flag}) \cup ({flag} \ flags)

\* a SetFlag that assigns the bit
SetFlag_Assign(flags, flag) == {flag}

\* BasicBlock::SetFlag on the flags word it loaded
SetFlag(flags, flag) == flags \cup {flag}

\* m_MainBlocks[i].SetFlag(BASIC_BLOCK_FLAG_FUNCTION) is Flags |= flag on a field
\* other workers write too: the load ...
FlagLoad(w) ==
    /\ pc = "parallel"
    /\ thr[w].pc = "flag_load"
    /\ thr' = [thr EXCEPT ![w].tmp = Block(thr[w].j).Flags, ![w].pc = "flag_store"]
    /\ UNCHANGED <<env, calls, pass, m_MainBlocks, pc, threadFunctions, funcs, it, functions,
                   scanLog, visits, oob, nClear, nGui>>

\* ... and the store, then the flag loop's and the candidate loop's tests
FlagStore(w) ==
    /\ pc = "parallel"
    /\ thr[w].pc = "flag_store"
    /\ m_MainBlocks' = [m_MainBlocks EXCEPT ![thr[w].j + 1].Flags =
                          SetFlag(thr[w].tmp, BASIC_BLOCK_FLAG_FUNCTION)]
    /\ thr' = IF thr[w].j + 1 < threadFunctions[w][thr[w].k].BBlockEnd
              THEN [thr EXCEPT ![w].pc = "flag_load", ![w].j = @ + 1, ![w].tmp = {}]
              ELSE [thr EXCEPT ![w].pc = AfterCandidate(thr[w].k, Len(threadFunctions[w])),
                               ![w].k = @ + 1, ![w].tmp = {}]
    /\ UNCHANGED <<env, calls, pass, pc, threadFunctions, funcs, it, functions,
                   scanLog, visits, oob, nClear, nGui>>

\* -------------------------------------------------- Analyse after the fork
\* a parallel_for that returns as soon as one iteration has returned
AllWorkersDone_Any == \E w \in Workers : thr[w].pc = "done"

\* parallel_for returns when every iteration has returned
AllWorkersDone == \A w \in Workers : thr[w].pc = "done"

Join ==
    /\ pc = "parallel"
    /\ AllWorkersDone
    /\ pc' = "merge"
    /\ UNCHANGED <<env, calls, pass, m_MainBlocks, thr, threadFunctions, funcs, it, functions,
                   scanLog, visits, oob, nClear, nGui>>

\* std::move of thread vector 0, 1, ... behind each other
RECURSIVE Concat(_, _)
Concat(tf, n) == IF n = 0 THEN <<>> ELSE Concat(tf, n - 1) \o tf[n - 1]

\* the merge without the removal of duplicates
MergeFuncs_NoUnique(tf, n) == Sort(Concat(tf, n))

\* merge thread vectors into single local, sort and remove duplicates
MergeFuncs(tf, n) == SortUniqueDefs(Concat(tf, n))

Merge ==
    /\ pc = "merge"
    /\ funcs' = MergeFuncs(threadFunctions, threads)
    /\ pc' = "clear"
    /\ UNCHANGED <<env, calls, pass, m_MainBlocks, thr, threadFunctions, it, functions,
                   scanLog, visits, oob, nClear, nGui>>

FunctionClear ==
    /\ pc = "clear"
    /\ functions' = <<>>
    /\ nClear' = nClear + 1
    /\ it' = 1
    /\ pc' = "add"
    /\ UNCHANGED <<env, calls, pass, m_MainBlocks, thr, threadFunctions, funcs,
                   scanLog, visits, oob, nGui>>

\* the table entry FunctionAdd(func.VirtualStart, func.VirtualEnd - 1, true) inserts
Committed(f) ==
    [Start |-> f.VirtualStart, End |-> Wrap(f.VirtualEnd - 1), Auto |-> TRUE]

FunctionAdd ==
    /\ pc = "add"
    /\ it <= Len(funcs)
    /\ functions' = Append(functions, Committed(funcs[it]))
    /\ it' = it + 1
    /\ UNCHANGED <<env, calls, pass, m_MainBlocks, pc, thr, threadFunctions, funcs,
                   scanLog, visits, oob, nClear, nGui>>

\* GuiUpdateAllViews, delete[] threadFunctions, return true
GuiUpdateAllViews ==
    /\ pc = "add"
    /\ it > Len(funcs)
    /\ nGui' = nGui + 1
    /\ pc' = "done"
    /\ UNCHANGED <<env, calls, pass, m_MainBlocks, thr, threadFunctions, funcs, it, functions,
                   scanLog, visits, oob, nClear>>

Next ==
    \/ Construct
    \/ Analyse
    \/ \E w \in Workers : FindFunctionWorkerPrepass(w)
    \/ \E w \in Workers : PrepassFault(w)
    \/ \E w \in Workers : ScanStep(w)
    \/ \E w \in Workers : SortStep(w)
    \/ \E w \in Workers : ResolveStep(w)
    \/ \E w \in Workers : FlagLoad(w)
    \/ \E w \in Workers : FlagStore(w)
    \/ Join
    \/ Merge
    \/ FunctionClear
    \/ FunctionAdd
    \/ GuiUpdateAllViews

\* ------------------------------------------------------------------ inputs
\* the cells indirect calls go through
PtrCells == {0, MaxAddr}

\* module bases: 0 is "no module"
ModBase == 1

Intervals == {iv \in (1..(MaxAddr - 1)) \X (2..MaxAddr) : iv[1] < iv[2]}

\* ascending, non-overlapping blocks inside the analysed range
Layouts ==
    UNION {{f \in [1..n -> Intervals] : \A x \in 1..(n - 1) : f[x][2] <= f[x + 1][1]} :
           n \in 0..MaxBlocks}

CallKinds ==
    {[Flags |-> {}, Target |-> 0]}
    \cup {[Flags |-> {BASIC_BLOCK_FLAG_CALL}, Target |-> t] : t \in Addr}
    \cup {[Flags |-> {BASIC_BLOCK_FLAG_CALL, BASIC_BLOCK_FLAG_INDIRPTR}, Target |-> c] :
          c \in PtrCells}

\* runtime-function records of a module loaded at ModBase, inside the analysed range
Records ==
    {r \in [BeginAddress : 0..(MaxAddr - 2), EndAddress : 1..(MaxAddr - 1)] :
     r.BeginAddress < r.EndAddress}

\* what a buffer that was never filled can hold
JunkRecords == Records \cup {[BeginAddress |-> 0, EndAddress |-> 0]}

TablesOf(R) == UNION {[1..n -> R] : n \in 0..MaxRecords}

Image(base, loads, off, alloc, read, table, junk) ==
    [ModBase |-> base, Loads |-> loads, virtualOffset |-> off, Alloc |-> alloc,
     Read |-> read, Size |-> IF read THEN Len(table) ELSE Len(junk),
     Table |-> table, Junk |-> junk]

Images ==
    {Image(0, FALSE, 0, FALSE, FALSE, <<>>, <<>>),          \* no owning module
     Image(ModBase, FALSE, 0, FALSE, FALSE, <<>>, <<>>),    \* StaticFileLoadW fails
     Image(ModBase, TRUE, 0, FALSE, FALSE, <<>>, <<>>),     \* no exception directory
     Image(ModBase, TRUE, 1, FALSE, FALSE, <<>>, <<>>)}     \* BridgeAlloc fails
    \cup {Image(ModBase, TRUE, 1, TRUE, FALSE, <<>>, j) : j \in TablesOf(JunkRecords)}
    \cup {Image(ModBase, TRUE, 1, TRUE, TRUE, t, <<>>) : t \in TablesOf(Records)}

\* the function table holds an entry from before the run
StaleFunctions == <<[Start |-> 1, End |-> 1, Auto |-> FALSE]>>

\* the state before the constructor runs, for a given environment
Fresh(blocks, img, t, vs, ve) ==
    /\ m_MainBlocks = blocks
    /\ image = img
    /\ threads = t
    /\ m_VirtualStart = vs
    /\ m_VirtualEnd = ve
    /\ m_ModuleStart = 0
    /\ m_FunctionInfo = NoBuffer
    /\ m_FunctionInfoSize = 0
    /\ pc = "new"
    /\ thr = [w \in 0..(t - 1) |->
                [pc |-> "idle", Start |-> 0, End |-> 0, i |-> 0, k |-> 0, j |-> 0, tmp |-> {}]]
    /\ threadFunctions = [w \in 0..(t - 1) |-> <<>>]
    /\ funcs = <<>>
    /\ it = 0
    /\ functions = StaleFunctions
    /\ scanLog = [b \in 0..(Len(blocks) - 1) |->
                    [scans |-> 0, by |-> -1, reads |-> 0, defs |-> <<>>]]
    /\ visits = 0
    /\ oob = FALSE
    /\ nClear = 0
    /\ nGui = 0
    /\ runs = 1
    /\ lastRun = <<>>

\* memory is only looked at through the cells of indirect calls, and readability
\* only asked of what was read from them
Init ==
    \E lay \in Layouts, img \in Images, t \in 1..MaxThreads :
      \E kinds \in [1..Len(lay) -> CallKinds] :
        LET blocks == [x \in 1..Len(lay) |->
                         [VirtualStart |-> lay[x][1], VirtualEnd |-> lay[x][2],
                          Target |-> kinds[x].Target, Flags |-> kinds[x].Flags]]
            indirect(c) == \E x \in 1..Len(lay) :
                              /\ BASIC_BLOCK_FLAG_INDIRPTR \in kinds[x].Flags
                              /\ kinds[x].Target = c
        IN  /\ Fresh(blocks, img, t, 1, MaxAddr)
            /\ \E m \in [PtrCells -> Addr \cup {MemFail}] :
                  /\ \A c \in PtrCells : indirect(c) \/ m[c] = MemFail
                  /\ mem = m
            /\ validPtr \in SUBSET ({mem[c] : c \in PtrCells} \ {MemFail})

Spec == Init /\ [][Next]_vars

\* sharding: n blocks [1,2), [2,3), ... without call edges, one record spanning the
\* first two blocks, and any worker count
InitShard ==
    \E n \in 0..MaxShardBlocks, t \in 1..MaxShardThreads, first \in {ModBase, ModBase + 1} :
        /\ Fresh([x \in 1..n |-> [VirtualStart |-> first + x - 1, VirtualEnd |-> first + x,
                                  Target |-> 0, Flags |-> {}]],
                 Image(ModBase, TRUE, 1, TRUE, TRUE,
                       <<[BeginAddress |-> 0, EndAddress |-> 2]>>, <<>>),
                 t, first, first + n)
        /\ mem = [c \in PtrCells |-> MemFail]
        /\ validPtr = {}

SpecShard == InitShard /\ [][Next]_vars

\* two records over RaceBlocks unit blocks, none of them a CALL, split between two
\* workers or three
RaceRecords ==
    {r \in [BeginAddress : 0..(RaceBlocks - 2), EndAddress : 1..(RaceBlocks - 1)] :
     r.BeginAddress < r.EndAddress}

InitRace ==
    \E t \in 2..RaceThreads, r1 \in RaceRecords, r2 \in RaceRecords :
        /\ Fresh([x \in 1..RaceBlocks |-> [VirtualStart |-> x, VirtualEnd |-> x + 1,
                                           Target |-> 0, Flags |-> {}]],
                 Image(ModBase, TRUE, 1, TRUE, TRUE, <<r1, r2>>, <<>>),
                 t, 1, RaceBlocks + 1)
        /\ mem = [c \in PtrCells |-> MemFail]
        /\ validPtr = {}

SpecRace == InitRace /\ [][Next]_vars

\* Analyse may be called a second time
NextAgain == Next \/ AnalyseAgain

SpecAgain == Init /\ [][NextAgain]_vars

\* ------------------------------------------------------------------ claims
Blocks == 0..(N - 1)
Forked == pc \notin {"new", "ready"}
Seen(s) == {s[x] : x \in 1..Len(s)}
Pair(f) == <<f.VirtualStart, f.VirtualEnd>>
InAnalysisRange(a) == m_VirtualStart <= a /\ a < m_VirtualEnd

\* the least c with c * t >= n
Ceil(n, t) == CHOOSE c \in 0..n : c * t >= n /\ (c = 0 \/ (c - 1) * t < n)

\* the block indices worker w is started on
Shard(w) == {b \in Blocks : thr[w].Start <= b /\ b < thr[w].End}

ScanFinished(w) == thr[w].pc \in {"sort", "resolve", "flag_load", "flag_store", "done"}

\* C1: for N >= 1 blocks and T in [1,N] workers, worker i is started on the indices
\* [i*ceil(N/T), min((i+1)*ceil(N/T), N)); these shards are pairwise disjoint and
\* together are 0..N-1, and every block is scanned once, by the worker of its shard.
C1_ShardsPartition ==
    (Forked /\ N >= 1 /\ threads <= N) =>
        /\ \A w \in Workers :
              Shard(w) = {b \in Blocks : /\ w * Ceil(N, threads) <= b
                                         /\ b < (w + 1) * Ceil(N, threads)}
        /\ \A v, w \in Workers : v # w => Shard(v) \cap Shard(w) = {}
        /\ UNION {Shard(w) : w \in Workers} = Blocks
        /\ \A b \in Blocks :
              /\ scanLog[b].scans <= 1
              /\ scanLog[b].scans = 1 => b \in Shard(scanLog[b].by)
        /\ \A w \in Workers : ScanFinished(w) => \A b \in Shard(w) : scanLog[b].scans = 1

\* a run of 5 blocks on 4 workers (the last worker's shard is empty) has committed
C1_Witness ==
    /\ pc = "done"
    /\ N = 5
    /\ threads = 4
    /\ \A b \in Blocks : scanLog[b].scans = 1

\* the absolute begin and end address of a runtime-function record
RecordBegin(r) == Wrap(m_ModuleStart + r.BeginAddress)
RecordEnd(r) == Wrap(m_ModuleStart + r.EndAddress)

\* a is the begin address of a record of the loaded table and lies in a block,
\* hence in the address interval of the shard that block belongs to
MetadataDiscovers(a) ==
    /\ \E r \in Seen(EnumerateFunctionRuntimeEntries64) : RecordBegin(r) = a
    /\ \E b \in Blocks : Block(b).VirtualStart <= a /\ a < Block(b).VirtualEnd

\* a is the start of a candidate the control-flow scan pushed
CallDiscovers(a) ==
    \E b \in Blocks : \E d \in Seen(scanLog[b].defs) : d.VirtualStart = a

\* a run over a table that was really read, with every block access inside the array
CleanRunDone == pc = "done" /\ image.Read /\ ~oob

\* C2: an entry address found both through a metadata record and through a CALL
\* edge has exactly one entry starting at it in the committed function table.
C2_DiscoveredTwiceCommittedOnce ==
    CleanRunDone =>
        \A a \in Addr :
            (MetadataDiscovers(a) /\ CallDiscovers(a)) =>
                Cardinality({x \in 1..Len(functions) : functions[x].Start = a}) = 1

\* C3: when a record's range [ModuleBase+begin, ModuleBase+end) is exactly the range
\* of a block, that block carries the FUNCTION (claimed) flag after discovery.
C3_CoincidingBlockClaimed ==
    CleanRunDone =>
        \A r \in Seen(EnumerateFunctionRuntimeEntries64), b \in Blocks :
            (RecordBegin(r) = Block(b).VirtualStart /\ RecordEnd(r) = Block(b).VirtualEnd)
                => BASIC_BLOCK_FLAG_FUNCTION \in Block(b).Flags

\* C4: every candidate of the control-flow scan is created with VirtualEnd = 0 and
\* FindFunctionWorker leaves it untouched: its block indices stay as created.
C4_ScanCandidatesPassThrough ==
    \A b \in Blocks : \A d \in Seen(scanLog[b].defs) :
        /\ d.VirtualEnd = 0
        /\ \A w \in Workers : \A f \in Seen(threadFunctions[w]) :
              Pair(f) = Pair(d) => (f.BBlockStart = 0 /\ f.BBlockEnd = 0)

\* C5: if a step of the constructor's load failed, the pass behaves as with an empty
\* table: the enumerator visits no record, in the constructed pass and in every run.
C5_FailedLoadIsEmptyTable ==
    (pc # "new" /\ LoadFailed(image)) =>
        /\ EnumerateFunctionRuntimeEntries64 = <<>>
        /\ visits = 0

\* C6: for every block sequence, the empty one and one shorter than the worker count
\* included, no worker accesses a block index outside 0..N-1 and none fails to return.
C6_NoAccessOutsideArray ==
    /\ ~oob
    /\ \A w \in Workers : thr[w].pc # "fault"

IsCall(b) == BASIC_BLOCK_FLAG_CALL \in Block(b).Flags
IsIndirect(b) == BASIC_BLOCK_FLAG_INDIRPTR \in Block(b).Flags

\* C7: no candidate of the control-flow scan starts outside the analysis range, and
\* so no function with a start outside it enters the table other than from a record.
C7_CallCandidatesInBounds ==
    /\ \A b \in Blocks : \A d \in Seen(scanLog[b].defs) : InAnalysisRange(d.VirtualStart)
    /\ nClear = 1 =>
          \A x \in 1..Len(functions) :
              ~InAnalysisRange(functions[x].Start) =>
                  \E r \in Seen(EnumerateFunctionRuntimeEntries64) :
                      RecordBegin(r) = functions[x].Start

\* two workers have scanned one CALL block each, a direct one whose Target and an
\* indirect one whose cell's readable content lie outside the range, and the run is over
C7_Witness ==
    /\ pc = "done"
    /\ threads = 2
    /\ \E b, c \in Blocks :
          /\ scanLog[b].scans = 1 /\ scanLog[c].scans = 1
          /\ scanLog[b].by # scanLog[c].by
          /\ IsCall(b) /\ ~IsIndirect(b) /\ ~InAnalysisRange(Block(b).Target)
          /\ IsCall(c) /\ IsIndirect(c)
          /\ mem[Block(c).Target] \in validPtr
          /\ ~InAnalysisRange(mem[Block(c).Target])

\* C8: for a CALL + INDIRPTR block the worker reads memory once, at Target; a
\* candidate is pushed exactly when the read succeeds with a value A that is validly
\* readable and inside the analysis range, and it starts at A; otherwise nothing is
\* pushed for the block, and the scan goes on to the shard's remaining blocks.
C8_IndirectCallResolution ==
    /\ \A b \in Blocks :
          (IsCall(b) /\ IsIndirect(b) /\ scanLog[b].scans = 1) =>
              /\ scanLog[b].reads = 1
              /\ IF /\ mem[Block(b).Target] # MemFail
                    /\ mem[Block(b).Target] \in validPtr
                    /\ InAnalysisRange(mem[Block(b).Target])
                 THEN /\ Len(scanLog[b].defs) = 1
                      /\ scanLog[b].defs[1].VirtualStart = mem[Block(b).Target]
                 ELSE scanLog[b].defs = <<>>
    /\ \A w \in Workers :
          (Forked /\ ScanFinished(w)) => \A b \in Shard(w) : scanLog[b].scans = 1

\* one worker has scanned two indirect calls: the first cell is unreadable and gave
\* nothing, the second gave a candidate at the cell's content
C8_Witness ==
    /\ threads = 1
    /\ N = 2
    /\ IsCall(0) /\ IsIndirect(0) /\ mem[Block(0).Target] = MemFail
    /\ scanLog[0].scans = 1 /\ scanLog[0].defs = <<>>
    /\ IsCall(1) /\ IsIndirect(1)
    /\ scanLog[1].scans = 1 /\ Len(scanLog[1].defs) = 1
    /\ scanLog[1].defs[1].VirtualStart # Block(1).Target

C9_Order ==
    /\ nClear <= 1
    /\ nGui <= 1
    /\ nClear = 1 => \A w \in Workers : thr[w].pc = "done"
    /\ nClear = 0 => functions = StaleFunctions
    /\ nGui = 1 => (nClear = 1 /\ Len(functions) = Len(funcs))

C9_Steps ==
    /\ pc = "parallel" => (functions' = functions /\ nClear' = nClear)
    /\ functions' # functions => \A w \in Workers : thr[w].pc = "done"
    /\ nGui = 1 => functions' = functions

\* C9: all workers have returned before the function table is cleared, the clear
\* precedes every insert, every insert precedes the one UI refresh, and the table is
\* neither cleared nor inserted into while the parallel phase runs.
C9_CommitOrder == []C9_Order /\ [][C9_Steps]_vars

\* a run of two workers has committed two functions and refreshed the UI
C9_Witness ==
    /\ pc = "done"
    /\ threads = 2
    /\ Len(functions) >= 2
    /\ nGui = 1

StrictlyAscending(s) ==
    \A x \in 1..(Len(s) - 1) :
        \/ s[x].VirtualStart < s[x + 1].VirtualStart
        \/ s[x].VirtualStart = s[x + 1].VirtualStart /\ s[x].VirtualEnd < s[x + 1].VirtualEnd

Pairs(s) == {Pair(f) : f \in Seen(s)}

\* C10: the functions inserted at commit are, in order, the entries of a list that
\* is strictly ascending in (VirtualStart, VirtualEnd), so holds no pair twice, and
\* that holds every pair some worker's list holds.
C10_CommitSortedDistinctComplete ==
    /\ pc \in {"clear", "add", "done"} =>
          /\ StrictlyAscending(funcs)
          /\ Pairs(funcs) = UNION {Pairs(threadFunctions[w]) : w \in Workers}
    /\ pc \in {"add", "done"} =>
          /\ Len(functions) = IF pc = "done" THEN Len(funcs) ELSE it - 1
          /\ \A x \in 1..Len(functions) :
                /\ functions[x].Start = funcs[x].VirtualStart
                /\ functions[x].End = Wrap(funcs[x].VirtualEnd - 1)

\* two workers produced the same pair, another pair was produced too, and the run
\* has committed
C10_Witness ==
    /\ pc = "done"
    /\ threads = 2
    /\ Pairs(threadFunctions[0]) \cap Pairs(threadFunctions[1]) # {}
    /\ Len(functions) >= 2

\* C11: a second discovery run over the unchanged block array, metadata table and
\* process memory leaves the function table with the same entries as the first.
C11_SecondRunSameTable ==
    (pc = "done" /\ runs = 2) => Seen(functions) = Seen(lastRun)

\* the address the CALL of block b goes to: its target, or for a call through a
\* pointer the value stored at the target
CallDestination(b) == IF IsIndirect(b) THEN mem[Block(b).Target] ELSE Block(b).Target

\* C12: a pass that holds no metadata buffer visits no record, and every function
\* it commits starts at the resolved destination of some CALL block.
C12_NoBufferOnlyCallTargets ==
    (Forked /\ m_FunctionInfo = NoBuffer) =>
        /\ visits = 0
        /\ nClear = 1 =>
              \A x \in 1..Len(functions) :
                  \E b \in Blocks : IsCall(b) /\ CallDestination(b) = functions[x].Start

C12_Witness ==
    /\ pc = "done"
    /\ image.ModBase = 0
    /\ m_FunctionInfo = NoBuffer
    /\ visits = 0
    /\ \A w \in Workers : thr[w].pc = "done"
    /\ Len(functions) = 2
    /\ \E b \in Blocks : IsCall(b) /\ IsIndirect(b) /\ CallDestination(b) = functions[1].Start

Claimed(b) == BASIC_BLOCK_FLAG_FUNCTION \in Block(b).Flags

\* the blocks candidate f of a worker's list claims once it is resolved
ClaimRange(f) ==
    IF Resolves(f)
    THEN {b \in Blocks : FindBBlockInRange(f.VirtualStart) <= b
                         /\ b < FindBBlockInRange(f.VirtualEnd)}
    ELSE {}

\* C13: a block's CLAIMED flag, once set, stays set: no step of a worker or of
\* the orchestrator clears it.
C13_ClaimedMonotone ==
    [][\A b \in Blocks :
          Claimed(b) => BASIC_BLOCK_FLAG_FUNCTION \in m_MainBlocks'[b + 1].Flags]_vars

C13_Witness ==
    /\ pc = "done"
    /\ \E b \in Blocks :
          /\ Claimed(b)
          /\ \E f \in Seen(threadFunctions[0]), g \in Seen(threadFunctions[1]) :
                b \in ClaimRange(f) /\ b \in ClaimRange(g)

\* worker w has returned from its prepass and not yet looked at a block
AfterPrepass(w) ==
    pc = "parallel" /\ thr[w].pc = "scan" /\ thr[w].i = thr[w].Start

\* the positions in the table of the records whose begin lies in [lo, hi)
RecordsIn(lo, hi) ==
    {x \in 1..Len(EnumerateFunctionRuntimeEntries64) :
        /\ lo <= RecordBegin(EnumerateFunctionRuntimeEntries64[x])
        /\ RecordBegin(EnumerateFunctionRuntimeEntries64[x]) < hi}

\* the workers whose prepass has returned
PastPrepass == {w \in Workers : thr[w].pc \notin {"idle", "prepass", "fault"}}

\* C14: the prepass of a shard pushes (ModuleBase + begin, ModuleBase + end) for
\* exactly the records whose begin lies in [VirtualStart of the shard's first block,
\* VirtualEnd of its last block), and every prepass visits every record of the table.
C14_PrepassFilter ==
    /\ \A w \in Workers :
          AfterPrepass(w) =>
              LET kept == RecordsIn(Block(thr[w].Start).VirtualStart,
                                    Block(thr[w].End - 1).VirtualEnd)
              IN  /\ Len(threadFunctions[w]) = Cardinality(kept)
                  /\ Pairs(threadFunctions[w]) =
                        {<<RecordBegin(EnumerateFunctionRuntimeEntries64[x]),
                           RecordEnd(EnumerateFunctionRuntimeEntries64[x])>> : x \in kept}
    /\ Forked => visits = Len(EnumerateFunctionRuntimeEntries64) * Cardinality(PastPrepass)

C14_Witness ==
    \E w \in Workers :
        /\ AfterPrepass(w)
        /\ thr[w].Start > 0
        /\ Len(EnumerateFunctionRuntimeEntries64) = 2
        /\ Len(threadFunctions[w]) = 1
        /\ RecordBegin(EnumerateFunctionRuntimeEntries64[1]) = Block(thr[w].Start).VirtualStart
        /\ RecordBegin(EnumerateFunctionRuntimeEntries64[2]) < Block(thr[w].Start).VirtualStart
        /\ visits = 2 * Cardinality(PastPrepass)

\* candidate f has a known end and a lookup of its start or of its end finds no block
LookupFails(f) ==
    /\ f.VirtualEnd # 0
    /\ \/ FindBBlockInRange(f.VirtualStart) = NotFound
       \/ FindBBlockInRange(f.VirtualEnd) = NotFound

\* after the run such a candidate is in its worker's list as it was pushed, it is in
\* the function table, and every claimed block lies in the range of a candidate
\* whose lookups succeeded
C15_Kept ==
    pc = "done" =>
        /\ \A w \in Workers : \A f \in Seen(threadFunctions[w]) :
              (thr[w].pc = "done" /\ LookupFails(f)) =>
                  /\ f.BBlockStart = 0 /\ f.BBlockEnd = 0
                  /\ Pair(f) \in Pairs(funcs)
                  /\ Committed(f) \in Seen(functions)
        /\ \A b \in Blocks :
              Claimed(b) => \E w \in Workers : \E f \in Seen(threadFunctions[w]) :
                                b \in ClaimRange(f)

\* the step of a worker on such a candidate changes no list and no block and does
\* not enter the flag loop
C15_Step ==
    \A w \in Workers :
        (/\ pc = "parallel"
         /\ thr[w].pc = "resolve"
         /\ thr'[w] # thr[w]
         /\ LookupFails(threadFunctions[w][thr[w].k])) =>
            /\ threadFunctions' = threadFunctions
            /\ m_MainBlocks' = m_MainBlocks
            /\ thr'[w].pc \in {"resolve", "done"}

\* C15: a candidate with a known end whose start or end lies in no block stays in
\* its worker's list unchanged, has no block claimed for it, and is still committed.
C15_FailedLookupKeepsCandidate == []C15_Kept /\ [][C15_Step]_vars

C15_Witness ==
    /\ pc = "done"
    /\ \A b \in Blocks : ~Claimed(b)
    /\ \E w \in Workers : \E f \in Seen(threadFunctions[w]) :
          /\ thr[w].pc = "done"
          /\ f.VirtualStart < f.VirtualEnd
          /\ FindBBlockInRange(f.VirtualStart) # NotFound
          /\ FindBBlockInRange(f.VirtualEnd) = NotFound
          /\ Committed(f) \in Seen(functions)

\* a block but for its CLAIMED flag
Unclaimed(blk) == [blk EXCEPT !.Flags = @ \ {BASIC_BLOCK_FLAG_FUNCTION}]

\* C16: a step of the parallel phase changes no list but that of the worker taking
\* it, and of the blocks nothing but CLAIMED flags: their number and order, their
\* VirtualStart, VirtualEnd, Target, CALL and INDIRECT_POINTER flags stay as they are.
C16_WorkerFrame ==
    [][(pc = "parallel" /\ pc' = "parallel") =>
          /\ Len(m_MainBlocks') = Len(m_MainBlocks)
          /\ \A b \in Blocks : Unclaimed(m_MainBlocks'[b + 1]) = Unclaimed(Block(b))
          /\ \A w \in Workers :
                thr'[w] = thr[w] => threadFunctions'[w] = threadFunctions[w]]_vars

C16_Witness ==
    /\ pc = "parallel"
    /\ threads = 2
    /\ threadFunctions[0] # <<>>
    /\ threadFunctions[1] # <<>>
    /\ thr[0].pc = "done"
    /\ thr[1].pc = "resolve"
    /\ \E b \in Blocks : Claimed(b) /\ IsCall(b)

\* the candidates of all workers' lists
AllCandidates == UNION {Seen(threadFunctions[w]) : w \in Workers}

\* C17: after the join the claimed blocks are the union of the block ranges of the
\* resolved candidates and the merged list is the ascending list of the records'
\* (start, end) pairs, whichever way the workers' flag loads and stores interleave,
\* also when two workers claim the same block.
C17_OverlappingClaims ==
    pc \in {"merge", "clear", "add", "done"} =>
        /\ {b \in Blocks : Claimed(b)} = UNION {ClaimRange(f) : f \in AllCandidates}
        /\ pc # "merge" =>
              /\ StrictlyAscending(funcs)
              /\ Pairs(funcs) = {<<RecordBegin(r), RecordEnd(r)>> :
                                    r \in Seen(EnumerateFunctionRuntimeEntries64)}

C17_Witness ==
    /\ pc = "done"
    /\ threads = 2
    /\ Len(funcs) = 2
    /\ \E f \in Seen(threadFunctions[0]), g \in Seen(threadFunctions[1]) :
          /\ ClaimRange(f) \cap ClaimRange(g) # {}
          /\ {b \in Blocks : Claimed(b)} = ClaimRange(f) \cup ClaimRange(g)
          /\ Cardinality(ClaimRange(f) \cup ClaimRange(g)) = 3

\* C18: for N >= 1 blocks and T in [1,N] workers every worker is started on a
\* non-empty range inside the array, Start < End <= N, so that the prepass reads
\* m_MainBlocks[Start] and m_MainBlocks[End - 1] of blocks that exist.
C18_ShardsNonEmptyInRange ==
    (Forked /\ N >= 1 /\ threads <= N) =>
        \A w \in Workers :
            /\ thr[w].Start < thr[w].End
            /\ thr[w].End <= N
            /\ InArray(thr[w].Start)
            /\ InArray(thr[w].End - 1)

\* C19: every function Analyse inserts is a closed interval that is not empty and
\* whose end VirtualEnd - 1 did not wrap: VirtualEnd >= 1 and VirtualEnd - 1 >=
\* VirtualStart, for candidates from records and from the scan alike.
C19_CommittedIntervalsWellFormed ==
    nClear = 1 =>
        \A x \in 1..Len(functions) :
            /\ funcs[x].VirtualEnd >= 1
            /\ functions[x].End = funcs[x].VirtualEnd - 1
            /\ functions[x].End >= functions[x].Start

\* each block begins where the one before it ends
Contiguous ==
    \A b \in Blocks : b + 1 \in Blocks => Block(b).VirtualEnd = Block(b + 1).VirtualStart

\* the (start, end) pairs a run with one worker commits: its shard is the whole
\* array, so the records that begin between the start of the first block and the
\* end of the last, and what the scan of each block pushes
SingleShardPairs ==
    {<<RecordBegin(EnumerateFunctionRuntimeEntries64[x]),
       RecordEnd(EnumerateFunctionRuntimeEntries64[x])>> :
        x \in RecordsIn(Block(0).VirtualStart, Block(N - 1).VirtualEnd)}
    \cup UNION {Pairs(ScanBlock(Block(b)).defs) : b \in Blocks}

\* C20: over N >= 1 ascending contiguous blocks a run with T in [1,N] workers
\* commits exactly the functions a run with one worker commits.
C20_WorkerCountIrrelevant ==
    (pc = "done" /\ N >= 1 /\ threads <= N /\ Contiguous) =>
        /\ Pairs(funcs) = SingleShardPairs
        /\ functions = [x \in 1..Len(funcs) |-> Committed(funcs[x])]

====
